---- MODULE Spec2Model ----
(***************************************************************************)
(* Model of the vessel anomaly-detection and alerting engine of x1.py:     *)
(* per-vessel history (vessel_location_history), the anomaly rules         *)
(* (check_for_anomalies), danger scoring (calculate_danger_level) and the  *)
(* alert cooldown (send_alert, last_alert_times), driven by on_message.    *)
(*                                                                         *)
(* Units.  time and the wall clock: whole seconds.  sog: knots.  cog:      *)
(* degrees.  lat, lon: 1e-7 degree, so that round(x, 6) is a real          *)
(* conversion (to a multiple of 10).  Distances: centimetres.  A quotient  *)
(* the code computes in floating point is kept as the pair num/den and     *)
(* compared by cross-multiplication, which is the exact comparison.        *)
(*                                                                         *)
(* JSON values.  A decoded JSON scalar is [k |-> "num", v |-> n] or        *)
(* [k |-> "str", v |-> 0] (a non-numeric string).  Python raises TypeError *)
(* when a str meets a number in <=, >, - ; it does not for == and !=.      *)
(***************************************************************************)
EXTENDS Integers, Sequences, FiniteSets, TLC

VARIABLES
    vessel_location_history,  \* x1.py:37  mmsi -> deque(maxlen=5) of reports
    last_alert_times,         \* x1.py:38  mmsi -> time of the last emitted alert
    clock,                    \* the reading of time.time()
    alerts,                   \* the ALERT records written by logging.warning, in order
    suppressed,               \* the "Suppressed ... in cooldown" lines of logging.info
    accepted,                 \* history variable: every report appended, per vessel
    last,                     \* the message handled last and what the handler did
    nmsgs,                    \* number of messages handled so far
    call,                     \* a call of a pure function: its arguments and return value
    threads                   \* the on_message callbacks in progress, when the
                              \* transport runs more than one at a time

vars == <<vessel_location_history, last_alert_times, clock, alerts, suppressed,
          accepted, last, nmsgs, call, threads>>

-----------------------------------------------------------------------------
(* Config, x1.py:11-30 *)

SPEED_DROP_THRESHOLD_PERCENT == 50
COURSE_CHANGE_THRESHOLD_DEG == 45
\* DRIFT_SPEED_THRESHOLD = 0.5 m/s, here in cm/s
DRIFT_SPEED_THRESHOLD == 50
VESSEL_HISTORY_LENGTH == 5
ALERT_COOLDOWN_MINUTES == 10

DANGER_LEVELS == [i \in 1..4 |->
    CASE i = 1 -> "Low" [] i = 2 -> "Medium" [] i = 3 -> "High" [] OTHER -> "Critical"]

-----------------------------------------------------------------------------
(* JSON scalars *)

Num(n) == [k |-> "num", v |-> n]
Str == [k |-> "str", v |-> 0]
None == [k |-> "none", v |-> 0]
IsNum(x) == x.k = "num"

Abs(x) == IF x < 0 THEN -x ELSE x

\* One degree, in the unit of lat and lon.
Deg == 10 * 1000000

\* round(x, 6): to the nearest multiple of 10 units, a tie to the even one.
Round6(x) ==
    LET r == x % 10
        b == x - r
    IN  IF r < 5 THEN b
        ELSE IF r > 5 THEN b + 10
        ELSE IF (b \div 10) % 2 = 0 THEN b ELSE b + 10

-----------------------------------------------------------------------------
(* Geo math *)

\* a * 1111949 + n1 / 1000 + n2 / 1000000, rounded up to a whole number.
ArcCeil(a, n1, n2) ==
    a * 1111949 + n1 \div 1000 + n2 \div 1000000
    + (((n1 % 1000) * 1000) + (n2 % 1000000) + 999999) \div 1000000

\* R * pi / 180 * 1e-7 degree = 1.111949 cm: the length of an arc of d units
\* of a great circle, in whole cm rounded up, so that "distance > n cm" is
\* decided as on the real number (the split keeps every product below 2^31).
ArcCm(d) ==
    ArcCeil(d \div 1000000, ((d % 1000000) \div 1000) * 1111949, (d % 1000) * 1111949)

\* haversine, x1.py:105-114, on the great circles through the poles, where
\* it has a closed form: on one meridian the central angle is |lat2 - lat1|,
\* on opposite meridians it is 180 - |lat1 + lat2|.
haversine(lat1, lon1, lat2, lon2) ==
    IF lon1 = lon2 THEN ArcCm(Abs(lat2 - lat1))
    ELSE ArcCm(180 * Deg - Abs(lat1 + lat2))

\* A faulty variant of normalize_course_diff: no wrap-around.
normalize_course_diff_linear(cog1, cog2) == Abs(cog1 - cog2) % 360

\* A faulty variant of normalize_course_diff: the modulus, not folded to the
\* shorter way round.
normalize_course_diff_unfolded(cog1, cog2) == (cog1 - cog2) % 360

\* x1.py:116-119
normalize_course_diff(cog1, cog2) ==
    LET diff == Abs(cog1 - cog2) % 360
    IN  IF diff <= 180 THEN diff ELSE 360 - diff

-----------------------------------------------------------------------------
(* Danger scoring *)

\* A faulty variant of danger_scores: every kind weighs 1.
danger_scores_flat(a) ==
    IF a \in {"speed_drop", "course_change", "drifting"} THEN 1 ELSE 0

\* x1.py:42-46 and the .get(a, 0) of line 47
danger_scores(a) ==
    CASE a = "speed_drop" -> 1
      [] a = "course_change" -> 2
      [] a = "drifting" -> 3
      [] OTHER -> 0

RECURSIVE SumScores(_)
SumScores(anoms) ==
    IF anoms = <<>> THEN 0 ELSE danger_scores(Head(anoms)) + SumScores(Tail(anoms))

calculate_danger_level(anomalies) ==
    LET total_score == SumScores(anomalies)
    IN  IF total_score >= 4 THEN <<4, DANGER_LEVELS[4]>>
        ELSE IF total_score >= 3 THEN <<3, DANGER_LEVELS[3]>>
        ELSE IF total_score >= 2 THEN <<2, DANGER_LEVELS[2]>>
        ELSE <<1, DANGER_LEVELS[1]>>

-----------------------------------------------------------------------------
(* Anomaly rules, x1.py:135-162.  Each rule yields whether Python raised,   *)
(* whether the rule triggered, and its evidence value.                      *)

Frac(n, d) == [k |-> "frac", num |-> n, den |-> d]
NoFrac == [k |-> "none", num |-> 0, den |-> 1]

\* num / den >= t  and  num / den > t, as float division orders them.
FracGE(n, d, t) == IF d > 0 THEN n >= t * d ELSE n <= t * d
FracGT(n, d, t) == IF d > 0 THEN n > t * d ELSE n < t * d

Rule(raised, hit, ev) == [raised |-> raised, hit |-> hit, ev |-> ev]
Raised == Rule(TRUE, FALSE, NoFrac)

\* A faulty variant of speed_drop_rule: the threshold itself does not trigger.
speed_drop_rule_strict(current, previous) ==
    IF ~IsNum(previous.sog) THEN Raised
    ELSE IF previous.sog.v > 0
    THEN IF ~IsNum(current.sog) THEN Raised
         ELSE LET n == (previous.sog.v - current.sog.v) * 100
                  d == previous.sog.v
              IN  Rule(FALSE, FracGT(n, d, SPEED_DROP_THRESHOLD_PERCENT), Frac(n, d))
    ELSE Rule(FALSE, FALSE, NoFrac)

\* x1.py:144-148
speed_drop_rule(current, previous) ==
    IF ~IsNum(previous.sog) THEN Raised
    ELSE IF previous.sog.v > 0
    THEN IF ~IsNum(current.sog) THEN Raised
         ELSE LET n == (previous.sog.v - current.sog.v) * 100
                  d == previous.sog.v
              IN  Rule(FALSE, FracGE(n, d, SPEED_DROP_THRESHOLD_PERCENT), Frac(n, d))
    ELSE Rule(FALSE, FALSE, NoFrac)

\* x1.py:151-154
course_change_rule(current, previous) ==
    IF ~IsNum(current.cog) \/ ~IsNum(previous.cog) THEN Raised
    ELSE LET course_change == normalize_course_diff(current.cog.v, previous.cog.v)
         IN  Rule(FALSE, course_change >= COURSE_CHANGE_THRESHOLD_DEG, Frac(course_change, 1))

\* A faulty variant of drift_applies: only the current speed is looked at.
drift_applies_current_only(current, previous) ==
    IF ~IsNum(current.sog) THEN FALSE ELSE current.sog.v = 0

\* x1.py:157: both speeds are zero (a str is not == 0).
drift_applies(current, previous) ==
    /\ IsNum(current.sog) /\ current.sog.v = 0
    /\ IsNum(previous.sog) /\ previous.sog.v = 0

\* A faulty variant of drifting_rule: the threshold itself triggers.
drifting_rule_inclusive(current, previous, time_diff) ==
    IF drift_applies(current, previous)
    THEN LET distance == haversine(previous.lat.v, previous.lon.v,
                                   current.lat.v, current.lon.v)
         IN  IF time_diff = 0 THEN Raised
             ELSE Rule(FALSE, FracGE(distance, time_diff, DRIFT_SPEED_THRESHOLD),
                       Frac(distance, time_diff))
    ELSE Rule(FALSE, FALSE, NoFrac)

\* x1.py:157-162; distance / time_diff raises ZeroDivisionError on 0.
drifting_rule(current, previous, time_diff) ==
    IF drift_applies(current, previous)
    THEN LET distance == haversine(previous.lat.v, previous.lon.v,
                                   current.lat.v, current.lon.v)
         IN  IF time_diff = 0 THEN Raised
             ELSE Rule(FALSE, FracGT(distance, time_diff, DRIFT_SPEED_THRESHOLD),
                       Frac(distance, time_diff))
    ELSE Rule(FALSE, FALSE, NoFrac)

\* The details dict of x1.py:124-133 with the evidence added by the rules.
Details(current, previous, anomalies, sd, cc, dr) ==
    [timestamp |-> current.time,
     positions |-> [current |-> [lat |-> current.lat, lon |-> current.lon],
                    previous |-> [lat |-> previous.lat, lon |-> previous.lon]],
     speed |-> [current |-> current.sog, previous |-> previous.sog],
     course |-> [current |-> current.cog, previous |-> previous.cog],
     anomalies |-> anomalies,
     speed_drop_percent |-> sd,
     course_change_deg |-> cc,
     drifting_speed |-> dr]

\* What the body of check_for_anomalies reaches before line 164:
\*   status "return": one of the two guards returned;
\*   status "raise":  a TypeError (or ZeroDivisionError) left the function;
\*   status "done":   the three rules ran; anomalies is the list built.
\* divs lists the elapsed times the function divided by.
Eval(status, anomalies, details, divs) ==
    [status |-> status, anomalies |-> anomalies, details |-> details, divs |-> divs]

NoDetails == [timestamp |-> None]

\* A faulty variant of time_guard: an elapsed time of 0 passes.
time_guard_strict(time_diff) == time_diff < 0

\* x1.py:139-141
time_guard(time_diff) == time_diff <= 0

\* x1.py:136-137 (a str is != 0)
nav_guard(current) == ~(IsNum(current.navStat) /\ current.navStat.v = 0)

evaluate_rules(current, previous) ==
    IF nav_guard(current) THEN Eval("return", <<>>, NoDetails, <<>>)
    ELSE IF ~IsNum(current.time) \/ ~IsNum(previous.time)
    THEN Eval("raise", <<>>, NoDetails, <<>>)
    ELSE
      LET time_diff == current.time.v - previous.time.v IN
      IF time_guard(time_diff) THEN Eval("return", <<>>, NoDetails, <<>>)
      ELSE
        LET s == speed_drop_rule(current, previous)
            c == course_change_rule(current, previous)
            d == drifting_rule(current, previous, time_diff)
            divs == IF drift_applies(current, previous) THEN <<time_diff>> ELSE <<>>
            anomalies == (IF s.hit THEN <<"speed_drop">> ELSE <<>>)
                         \o (IF c.hit THEN <<"course_change">> ELSE <<>>)
                         \o (IF d.hit THEN <<"drifting">> ELSE <<>>)
        IN  IF s.raised \/ c.raised THEN Eval("raise", <<>>, NoDetails, <<>>)
            ELSE IF d.raised THEN Eval("raise", <<>>, NoDetails, divs)
            ELSE Eval("done", anomalies,
                      Details(current, previous, anomalies,
                              IF s.hit THEN s.ev ELSE NoFrac,
                              IF c.hit THEN c.ev ELSE NoFrac,
                              IF d.hit THEN d.ev ELSE NoFrac),
                      divs)

-----------------------------------------------------------------------------
(* Alert manager, x1.py:58-103 *)

\* get_map_link: both coordinates formatted with 6 decimals; the pair of
\* formatted numbers, in 1e-6 degree.
get_map_link(lat, lon) == <<Round6(lat) \div 10, Round6(lon) \div 10>>

\* x1.py:165: ", ".join(anomalies).replace("_", " ").title(), as the list of
\* the titled names.
Title(a) ==
    CASE a = "speed_drop" -> "Speed Drop"
      [] a = "course_change" -> "Course Change"
      [] a = "drifting" -> "Drifting"
      [] OTHER -> a

Reason(anomalies) == [i \in 1..Len(anomalies) |-> Title(anomalies[i])]

\* A faulty variant of LastAlert: a vessel without an entry is out of its
\* cooldown window at any time.
LastAlert_long_ago(lat_times, mmsi) ==
    IF mmsi \in DOMAIN lat_times THEN lat_times[mmsi] ELSE 0 - ALERT_COOLDOWN_MINUTES * 60

\* last_alert_times.get(mmsi, 0)
LastAlert(lat_times, mmsi) == IF mmsi \in DOMAIN lat_times THEN lat_times[mmsi] ELSE 0

\* A faulty variant of DictSet: one value shared by every key.
DictSet_every(d, key, val) == [x \in DOMAIN d \cup {key} |-> val]

\* d[k] = v on a dict
DictSet(d, key, val) == [x \in DOMAIN d \cup {key} |-> IF x = key THEN val ELSE d[x]]

\* A faulty variant of AlertData: located at the previous position.
AlertData_previous_position(mmsi, details) ==
    LET level == calculate_danger_level(details.anomalies)
        current_pos == details.positions.previous
    IN  [vessel_id |-> mmsi,
         timestamp |-> details.timestamp,
         danger_level |-> level[2],
         danger_score |-> level[1],
         location |-> [coordinates |-> [lat |-> current_pos.lat, lon |-> current_pos.lon],
                       google_maps |-> get_map_link(current_pos.lat.v, current_pos.lon.v),
                       approx_location |-> "At sea"],
         indicators |-> details.anomalies,
         metrics |-> [speed |-> details.speed,
                      course |-> details.course,
                      drifting_speed |-> details.drifting_speed]]

\* x1.py:81-93
AlertData(mmsi, details) ==
    LET level == calculate_danger_level(details.anomalies)
        current_pos == details.positions.current
    IN  [vessel_id |-> mmsi,
         timestamp |-> details.timestamp,
         danger_level |-> level[2],
         danger_score |-> level[1],
         location |-> [coordinates |-> [lat |-> current_pos.lat, lon |-> current_pos.lon],
                       google_maps |-> get_map_link(current_pos.lat.v, current_pos.lon.v),
                       approx_location |-> "At sea"],
         indicators |-> details.anomalies,
         metrics |-> [speed |-> details.speed,
                      course |-> details.course,
                      drifting_speed |-> details.drifting_speed]]

\* A faulty variant of cooldown_over: a strict comparison.
cooldown_over_strict(current_time, last_time) ==
    current_time - last_time > ALERT_COOLDOWN_MINUTES * 60

\* x1.py:95: the cooldown test.
cooldown_over(current_time, last_time) ==
    current_time - last_time >= ALERT_COOLDOWN_MINUTES * 60

\* What a call leaves behind: the cooldown map, the emitted alerts, the
\* suppression lines, and whether it emitted ("alert") or suppressed.
Sent(lat_times, al, sup, outcome) ==
    [last_alert_times |-> lat_times, alerts |-> al, suppressed |-> sup,
     outcome |-> outcome]

\* A faulty variant of send_alert: the emission time is not recorded.
send_alert_unrecorded(mmsi, reason, details, lat_times, al, sup, now) ==
    LET alert_data == [vessel_id |-> mmsi, indicators |-> details.anomalies]
    IN  IF now - LastAlert(lat_times, mmsi) >= ALERT_COOLDOWN_MINUTES * 60
        THEN Sent(lat_times,
                  Append(al, [at |-> now, reason |-> reason, data |-> alert_data]),
                  sup, "alert")
        ELSE Sent(lat_times, al, sup, "suppressed")

\* A faulty variant of send_alert: a suppressed event restarts the window.
send_alert_restarting(mmsi, reason, details, lat_times, al, sup, now) ==
    IF now - LastAlert(lat_times, mmsi) >= ALERT_COOLDOWN_MINUTES * 60
    THEN Sent(DictSet(lat_times, mmsi, now),
              Append(al, [at |-> now, reason |-> reason,
                          data |-> AlertData(mmsi, details)]),
              sup, "alert")
    ELSE Sent(DictSet(lat_times, mmsi, now), al, sup, "suppressed")

\* x1.py:62-103.  lat_times: last_alert_times; al, sup: the two logs so far;
\* now: the reading of time.time() at line 64.
send_alert(mmsi, reason, details, lat_times, al, sup, now) ==
    LET current_time == now
        alert_data == AlertData(mmsi, details)
    IN  IF cooldown_over(current_time, LastAlert(lat_times, mmsi))
        THEN Sent(DictSet(lat_times, mmsi, current_time),
                  Append(al, [at |-> current_time, reason |-> reason, data |-> alert_data]),
                  sup, "alert")
        ELSE Sent(lat_times, al,
                  Append(sup, [at |-> current_time, mmsi |-> mmsi,
                               danger_level |-> alert_data.danger_level]),
                  "suppressed")

\* x1.py:121-166: the rules, then send_alert when the list is not empty.
\* outcome: "alert", "suppressed", "none" (no anomaly, or a guard returned),
\* "raised" (the exception reaches on_message's handler).
Checked(ev, sent) ==
    [eval |-> ev, last_alert_times |-> sent.last_alert_times,
     alerts |-> sent.alerts, suppressed |-> sent.suppressed, outcome |-> sent.outcome]

check_for_anomalies(mmsi, current, previous, lat_times, al, sup, now) ==
    LET ev == evaluate_rules(current, previous)
    IN  IF ev.status = "raise" THEN Checked(ev, Sent(lat_times, al, sup, "raised"))
        ELSE IF ev.anomalies # <<>>
        THEN Checked(ev, send_alert(mmsi, Reason(ev.anomalies), ev.details,
                                    lat_times, al, sup, now))
        ELSE Checked(ev, Sent(lat_times, al, sup, "none"))

-----------------------------------------------------------------------------
(* Ingestion, x1.py:175-210 *)

EmptyDict == [x \in {} |-> 0]

\* payload.get(key, default) on a decoded JSON object.
Get(payload, key, default) == IF key \in DOMAIN payload THEN payload[key] ELSE default

\* x1.py:187-194
CurrentData(payload, now) ==
    [time |-> Get(payload, "time", Num(now)),
     sog |-> Get(payload, "sog", Num(0)),
     cog |-> Get(payload, "cog", Num(0)),
     navStat |-> Get(payload, "navStat", Num(0)),
     lat |-> Get(payload, "lat", Num(0)),
     lon |-> Get(payload, "lon", Num(0))]

\* x1.py:198, the chained comparisons left to right with "and" cutting
\* short: "raise" when a str is compared, else "valid" or "invalid".
validate_position(lat, lon) ==
    IF ~IsNum(lat) THEN "raise"
    ELSE IF ~(-90 * Deg <= lat.v /\ lat.v <= 90 * Deg) THEN "invalid"
    ELSE IF ~IsNum(lon) THEN "raise"
    ELSE IF ~(-180 * Deg <= lon.v /\ lon.v <= 180 * Deg) THEN "invalid"
    ELSE "valid"

\* x1.py:199-200
RoundPosition(current_data) ==
    [current_data EXCEPT !.lat = Num(Round6(current_data.lat.v)),
                         !.lon = Num(Round6(current_data.lon.v))]

\* A faulty variant of deque_append: a deque without maxlen.
deque_append_unbounded(history, x) == Append(history, x)

\* deque(maxlen=VESSEL_HISTORY_LENGTH).append, x1.py:184, 201
deque_append(history, x) ==
    LET s == Append(history, x)
    IN  IF Len(s) > VESSEL_HISTORY_LENGTH THEN Tail(s) ELSE s

\* vessel_location_history.setdefault(mmsi, deque(...)), x1.py:183-185
setdefault(hist, mmsi) ==
    IF mmsi \in DOMAIN hist THEN hist ELSE DictSet(hist, mmsi, <<>>)

\* A faulty variant of enough_history: evaluation starts with the third report.
enough_history_late(history) == Len(history) > 2

\* x1.py:202
enough_history(history) == Len(history) >= 2

\* A faulty variant of previous_report: the oldest report held.
previous_report_oldest(history) == history[1]

\* x1.py:203: history[-2]
previous_report(history) == history[Len(history) - 1]

NoReport == [time |-> None, sog |-> None, cog |-> None,
             navStat |-> None, lat |-> None, lon |-> None]
NoEval == Eval("none", <<>>, NoDetails, <<>>)
NoMsg == [topic |-> <<>>, kind |-> "none", payload |-> EmptyDict]

\* What one run of on_message leaves behind.
\*   outcome: "invalid_json" (line 208), "no_mmsi" (line 180), "invalid"
\*   (line 205), "raised" (line 210), "stored" (appended, fewer than two
\*   reports), else what check_for_anomalies did: "alert", "suppressed",
\*   "none".
\*   appended: the report was appended; evaluated: check_for_anomalies was
\*   called, with current and previous.
Handled(hist, lat_times, al, sup, outcome, appended, evaluated, current, previous, ev) ==
    [vessel_location_history |-> hist, last_alert_times |-> lat_times, alerts |-> al,
     suppressed |-> sup, outcome |-> outcome, appended |-> appended,
     evaluated |-> evaluated, current |-> current, previous |-> previous, eval |-> ev]

\* A run that ends before anything is appended.
Rejected(hist, lat_times, al, sup, outcome) ==
    Handled(hist, lat_times, al, sup, outcome, FALSE, FALSE, NoReport, NoReport, NoEval)

Handler(msg, hist, lat_times, al, sup, now) ==
    IF msg.kind = "invalid_json" THEN Rejected(hist, lat_times, al, sup, "invalid_json")
    ELSE IF Len(msg.topic) < 3 THEN Rejected(hist, lat_times, al, sup, "no_mmsi")
    ELSE
      LET mmsi == msg.topic[2]
          hist1 == setdefault(hist, mmsi)
      IN
      IF msg.kind # "object" THEN Rejected(hist1, lat_times, al, sup, "raised")
      ELSE
        LET current_data == CurrentData(msg.payload, now)
            pos == validate_position(current_data.lat, current_data.lon)
        IN
        IF pos = "raise" THEN Rejected(hist1, lat_times, al, sup, "raised")
        ELSE IF pos = "invalid" THEN Rejected(hist1, lat_times, al, sup, "invalid")
        ELSE
          LET current == RoundPosition(current_data)
              history == deque_append(hist1[mmsi], current)
              hist2 == DictSet(hist1, mmsi, history)
          IN
          IF enough_history(history)
          THEN LET previous == previous_report(history)
                   c == check_for_anomalies(mmsi, current, previous,
                                            lat_times, al, sup, now)
               IN  Handled(hist2, c.last_alert_times, c.alerts, c.suppressed, c.outcome,
                           TRUE, TRUE, current, previous, c.eval)
          ELSE Handled(hist2, lat_times, al, sup, "stored",
                       TRUE, FALSE, current, NoReport, NoEval)

\* The reports vessel mmsi has in a dict of sequences (none when absent).
Reports(d, mmsi) == IF mmsi \in DOMAIN d THEN d[mmsi] ELSE <<>>

-----------------------------------------------------------------------------
(* The engine as a state machine *)

\* No pure function is being called on its own; one callback at a time
\* (paho's loop_forever), so none is in progress between two actions.
NoCall == [fn |-> "none", args |-> <<>>, ret |-> <<>>]
NoThreads == <<>>

Init ==
    /\ vessel_location_history = EmptyDict
    /\ last_alert_times = EmptyDict
    /\ clock = 0
    /\ alerts = <<>>
    /\ suppressed = <<>>
    /\ accepted = EmptyDict
    /\ last = [msg |-> NoMsg, outcome |-> "init", appended |-> FALSE, evaluated |-> FALSE,
               current |-> NoReport, previous |-> NoReport, eval |-> NoEval]
    /\ nmsgs = 0
    /\ call = NoCall
    /\ threads = NoThreads

\* The transport calls on_message(client, userdata, msg).
on_message(msg) ==
    LET r == Handler(msg, vessel_location_history, last_alert_times, alerts,
                     suppressed, clock)
    IN  /\ vessel_location_history' = r.vessel_location_history
        /\ last_alert_times' = r.last_alert_times
        /\ alerts' = r.alerts
        /\ suppressed' = r.suppressed
        /\ accepted' = IF r.appended
                       THEN DictSet(accepted, msg.topic[2],
                                    Append(Reports(accepted, msg.topic[2]), r.current))
                       ELSE accepted
        /\ last' = [msg |-> msg, outcome |-> r.outcome, appended |-> r.appended,
                    evaluated |-> r.evaluated, current |-> r.current,
                    previous |-> r.previous, eval |-> r.eval]
        /\ nmsgs' = nmsgs + 1
        /\ UNCHANGED <<clock, call, threads>>

\* Time passes: time.time() reads t from now on.
Tick(t) ==
    /\ t > clock
    /\ clock' = t
    /\ UNCHANGED <<vessel_location_history, last_alert_times, alerts, suppressed,
                   accepted, last, nmsgs, call, threads>>

-----------------------------------------------------------------------------
(* Inputs *)

Vessels == {"v1", "v2"}

\* The topic of the subscription vessels-v2/+/location, x1.py:30.
Topic(mmsi) == <<"vessels-v2", mmsi, "location">>

Obj(mmsi, payload) == [topic |-> Topic(mmsi), kind |-> "object", payload |-> payload]

\* A position off Helsinki; the 7th decimal is dropped by round(x, 6).
Lat0 == 60 * Deg + 4
Lon0 == 25 * Deg - 4

\* The readings of the wall clock at which messages arrive: 0 and 600 are
\* the two sides of the first cooldown test, 660, 1200 and 1300 lie 60, 600
\* and 700 seconds after 600.
Instants == {0, 600, 660, 1200, 1300}

\* A report without a time field: on_message stamps it with the clock.
Moving(sog, cog) ==
    [sog |-> Num(sog), cog |-> Num(cog), navStat |-> Num(0),
     lat |-> Num(Lat0), lon |-> Num(Lon0)]

MaxMsgs == 4

Messages ==
    {Obj("v1", Moving(10, 10)), Obj("v1", Moving(10, 60)), Obj("v1", Moving(4, 60))}
    \cup {Obj("v2", Moving(10, c)) : c \in {10, 60}}

Next ==
    \/ \E t \in Instants : Tick(t)
    \/ \E msg \in Messages : nmsgs < MaxMsgs /\ on_message(msg)

Spec == Init /\ [][Next]_vars

-----------------------------------------------------------------------------
(* Properties of the cooldown, checked under Spec *)

\* The vessel of the message handled last, and the step that handles one.
LastVessel == last.msg.topic[2]
Handles == nmsgs' = nmsgs + 1

\* The handler evaluated a pair and its anomaly list is not empty: a
\* qualifying anomaly event reaches send_alert.
Qualifying == last.evaluated /\ last.eval.status = "done" /\ last.eval.anomalies # <<>>

\* The step appends exactly one alert, for vessel m, stamped with the clock.
Emits(m) ==
    /\ Len(alerts') = Len(alerts) + 1
    /\ SubSeq(alerts', 1, Len(alerts)) = alerts
    /\ alerts'[Len(alerts')].data.vessel_id = m
    /\ alerts'[Len(alerts')].at = clock

\* C1  Cooldown spacing: any two alerts emitted for the same vessel have
\* emission times at least 600 seconds apart.
C1_CooldownSpacing ==
    \A i, j \in 1..Len(alerts) :
        (i < j /\ alerts[i].data.vessel_id = alerts[j].data.vessel_id)
            => alerts[j].at - alerts[i].at >= 600

\* Two alerts of one vessel exactly 600 seconds apart, with an anomaly
\* evaluation of that vessel suppressed in between.
C1_Witness ==
    \E i, j \in 1..Len(alerts) : \E k \in 1..Len(suppressed) :
        /\ i < j
        /\ alerts[i].data.vessel_id = alerts[j].data.vessel_id
        /\ alerts[j].at - alerts[i].at = 600
        /\ suppressed[k].mmsi = alerts[i].data.vessel_id
        /\ alerts[i].at < suppressed[k].at /\ suppressed[k].at < alerts[j].at

\* C2  Emit decision: a qualifying event of vessel m handled at clock time
\* now is emitted exactly when now - lastAlertTime(m) >= 600, and the
\* emission sets lastAlertTime(m) = now; so an event 60 seconds after an
\* emitted one is not emitted (one alert for the two), and an event 700
\* seconds after an emitted one is emitted (two alerts).
C2_EmitDecision ==
    [][(Handles /\ Qualifying') =>
        LET m == LastVessel'
            due == clock - LastAlert(last_alert_times, m) >= 600
        IN  /\ due => (Emits(m) /\ last_alert_times'[m] = clock)
            /\ ~due => (alerts' = alerts /\ last_alert_times' = last_alert_times)
            /\ (m \in DOMAIN last_alert_times /\ clock - last_alert_times[m] = 60)
                  => alerts' = alerts
            /\ (m \in DOMAIN last_alert_times /\ clock - last_alert_times[m] = 700)
                  => Emits(m)
      ]_vars

\* An alert of a vessel, a suppressed event of it 60 seconds later, and a
\* second alert 700 seconds after the first.
C2_Witness ==
    \E i, j \in 1..Len(alerts) : \E k \in 1..Len(suppressed) :
        /\ alerts[i].data.vessel_id = alerts[j].data.vessel_id
        /\ suppressed[k].mmsi = alerts[i].data.vessel_id
        /\ suppressed[k].at = alerts[i].at + 60
        /\ alerts[j].at = alerts[i].at + 700

\* C3  Suppression drops the event: a suppressed event leaves the cooldown
\* map, the emitted alerts and every history but the appended report as
\* they were; and an emitted alert carries the anomaly kinds and evidence of
\* the pair (report of this message, report stored last) alone.
C3_SuppressionDrops ==
    [][Handles =>
        LET m == LastVessel'
            cur == RoundPosition(CurrentData(last'.msg.payload, clock))
            prev == vessel_location_history[m][Len(vessel_location_history[m])]
        IN  /\ last'.outcome = "suppressed" =>
                /\ last_alert_times' = last_alert_times
                /\ alerts' = alerts
                /\ \A v \in DOMAIN vessel_location_history' \ {m} :
                       /\ v \in DOMAIN vessel_location_history
                       /\ vessel_location_history'[v] = vessel_location_history[v]
                /\ vessel_location_history'[m] =
                       deque_append(vessel_location_history[m], cur)
            /\ last'.outcome = "alert" =>
                LET a == alerts'[Len(alerts')]
                    ev == evaluate_rules(cur, prev)
                IN  /\ Emits(m)
                    /\ a.data.indicators = ev.anomalies
                    /\ a.data.timestamp = cur.time
                    /\ a.data.metrics.speed = [current |-> cur.sog, previous |-> prev.sog]
                    /\ a.data.metrics.course = [current |-> cur.cog, previous |-> prev.cog]
                    /\ a.data.metrics.drifting_speed = ev.details.drifting_speed
                    /\ a.data.danger_score = calculate_danger_level(ev.anomalies)[1]
      ]_vars

\* An event of level High was suppressed and a later alert of the same
\* vessel has a lower level.
C3_Witness ==
    \E i \in 1..Len(alerts) : \E k \in 1..Len(suppressed) :
        /\ suppressed[k].mmsi = alerts[i].data.vessel_id
        /\ suppressed[k].at < alerts[i].at
        /\ suppressed[k].danger_level = "High"
        /\ alerts[i].data.danger_score < 3

-----------------------------------------------------------------------------
(* The anomaly rules on one pair: a vessel with one stored report receives  *)
(* one message.                                                             *)

Stored(time, sog, cog) ==
    [time |-> time, sog |-> sog, cog |-> cog, navStat |-> Num(0),
     lat |-> Num(Round6(Lat0)), lon |-> Num(Round6(Lon0))]

DetectPrevious ==
    {Stored(Num(1000), sog, cog) :
        sog \in {Num(0), Num(5), Num(10), Str},
        cog \in {Num(10), Num(350), Str}}

\* 53960 and 35970 units of latitude are 600 m and 400 m; 5440 units are
\* 60.49 m, within a centimetre below 0.5 m/s over 121 s.
DetectMessages ==
    {Obj("v1", [time |-> time, sog |-> sog, cog |-> cog, navStat |-> nav,
                lat |-> Num(Lat0 + dlat), lon |-> Num(Lon0)]) :
        time \in {Num(900), Num(1000), Num(1121), Num(2000), Str},
        sog \in {Num(0), Num(4), Num(5), Num(6), Num(12), Str},
        cog \in {Num(10), Num(34), Num(35), Num(40), Num(55), Num(60), Str},
        nav \in {Num(0), Num(1), Str},
        dlat \in {0, 5440, 35970, 53960}}

InitDetect ==
    \E previous \in DetectPrevious :
        /\ vessel_location_history = [v \in {"v1"} |-> <<previous>>]
        /\ accepted = [v \in {"v1"} |-> <<previous>>]
        /\ last_alert_times = EmptyDict
        /\ clock = 600
        /\ alerts = <<>>
        /\ suppressed = <<>>
        /\ last = [msg |-> NoMsg, outcome |-> "init", appended |-> FALSE,
                   evaluated |-> FALSE, current |-> NoReport, previous |-> NoReport,
                   eval |-> NoEval]
        /\ nmsgs = 0
        /\ call = NoCall
        /\ threads = NoThreads

NextDetect == last.outcome = "init" /\ \E msg \in DetectMessages : on_message(msg)

SpecDetect == InitDetect /\ [][NextDetect]_vars

Has(anomalies, kind) == \E i \in 1..Len(anomalies) : anomalies[i] = kind

\* Both guards of check_for_anomalies pass for the pair handled last.
GuardsPass ==
    /\ last.evaluated
    /\ IsNum(last.current.navStat) /\ last.current.navStat.v = 0
    /\ IsNum(last.current.time) /\ IsNum(last.previous.time)
    /\ last.current.time.v - last.previous.time.v > 0

\* Speeds and courses of the pair handled last are numbers.
NumericPair ==
    /\ IsNum(last.current.sog) /\ IsNum(last.previous.sog)
    /\ IsNum(last.current.cog) /\ IsNum(last.previous.cog)

\* C7  Guards: with current.navStat != 0 or a non-positive elapsed time the
\* anomaly list is empty whatever the other fields are, nothing is emitted
\* or suppressed and the cooldown map is as before; and no elapsed time the
\* function divides by is non-positive.
C7_Guards ==
    last.evaluated =>
      /\ ( \/ ~(IsNum(last.current.navStat) /\ last.current.navStat.v = 0)
           \/ ( /\ IsNum(last.current.time) /\ IsNum(last.previous.time)
                /\ last.current.time.v - last.previous.time.v <= 0 ) )
         => /\ last.eval.anomalies = <<>>
            /\ last.outcome = "none"
            /\ alerts = <<>> /\ suppressed = <<>>
            /\ last_alert_times = EmptyDict
            /\ last.eval.divs = <<>>
      /\ \A i \in 1..Len(last.eval.divs) : last.eval.divs[i] > 0

\* A pair with elapsed time 0 whose speeds are both 0 and whose course
\* changed by 50 degrees was evaluated, at a clock that would emit.
C7_Witness ==
    /\ last.evaluated /\ clock = 600
    /\ last.current.navStat = Num(0)
    /\ last.current.time = Num(1000) /\ last.previous.time = Num(1000)
    /\ last.current.sog = Num(0) /\ last.previous.sog = Num(0)
    /\ last.current.cog = Num(60) /\ last.previous.cog = Num(10)
    /\ last.current.lat.v # last.previous.lat.v

\* C9  Speed-drop rule: when both guards pass, speed_drop is in the list
\* exactly when previous.sog > 0 and the drop is at least 50 percent, that
\* is 2 * current.sog <= previous.sog.
C9_SpeedDrop ==
    (GuardsPass /\ NumericPair) =>
      LET p == last.previous.sog.v
          c == last.current.sog.v
      IN  /\ last.eval.status = "done"
          /\ Has(last.eval.anomalies, "speed_drop") <=> (p > 0 /\ 2 * c <= p)
          /\ p = 0 => ~Has(last.eval.anomalies, "speed_drop")
          /\ c > p => ~Has(last.eval.anomalies, "speed_drop")
          /\ (p = 10 /\ c = 4) => Has(last.eval.anomalies, "speed_drop")
          /\ (p = 10 /\ c = 6) => ~Has(last.eval.anomalies, "speed_drop")

\* A drop of exactly 50 percent, 10 -> 5, was reported as speed_drop.
C9_Witness ==
    /\ GuardsPass /\ NumericPair
    /\ last.previous.sog.v = 10 /\ last.current.sog.v = 5
    /\ Has(last.eval.anomalies, "speed_drop")

\* C10  Course-change rule: when both guards pass, course_change is in the
\* list exactly when min(|c1 - c2|, 360 - |c1 - c2|) >= 45, whatever the
\* speeds are and whatever the other two rules did.
C10_CourseChange ==
    (GuardsPass /\ NumericPair) =>
      LET c1 == last.current.cog.v
          c2 == last.previous.cog.v
          d == IF c1 >= c2 THEN c1 - c2 ELSE c2 - c1
          circ == IF d <= 360 - d THEN d ELSE 360 - d
      IN  /\ last.eval.status = "done"
          /\ Has(last.eval.anomalies, "course_change") <=> circ >= 45
          /\ (c2 = 10 /\ c1 = 60) => Has(last.eval.anomalies, "course_change")
          /\ (c2 = 10 /\ c1 = 40) => ~Has(last.eval.anomalies, "course_change")
          /\ (c2 = 350 /\ c1 = 40) => Has(last.eval.anomalies, "course_change")

\* A change of exactly 45 degrees across north, 350 -> 35, reported together
\* with a speed drop.
C10_Witness ==
    /\ GuardsPass /\ NumericPair
    /\ last.previous.cog.v = 350 /\ last.current.cog.v = 35
    /\ last.eval.anomalies = <<"speed_drop", "course_change">>

\* C11  Drift rule: when both guards pass, drifting is in the list exactly
\* when both speeds are 0 and distance / elapsed time is strictly above
\* 0.5 m/s; 600 m in 1000 s triggers, 400 m in 1000 s does not, a distance
\* of 0.5 m/s times the elapsed time does not, and with a non-zero speed the
\* rule never triggers.
C11_Drift ==
    (GuardsPass /\ NumericPair) =>
      LET td == last.current.time.v - last.previous.time.v
          dlat == Abs(last.current.lat.v - last.previous.lat.v)
          cm == haversine(last.previous.lat.v, last.previous.lon.v,
                          last.current.lat.v, last.current.lon.v)
          still == last.current.sog.v = 0 /\ last.previous.sog.v = 0
          drifting == Has(last.eval.anomalies, "drifting")
      IN  /\ last.eval.status = "done"
          /\ drifting <=> (still /\ 2 * cm > 100 * td)
          /\ ~still => ~drifting
          /\ (still /\ dlat = 53960 /\ td = 1000) => drifting
          /\ (still /\ dlat = 35970 /\ td = 1000) => ~drifting
          /\ (still /\ 2 * cm = 100 * td) => ~drifting

\* Both speeds 0 and a displacement the centimetre grid puts at exactly
\* 0.5 m/s (60.50 m in 121 s): evaluated, and not reported as drifting.
C11_Witness ==
    /\ GuardsPass /\ NumericPair
    /\ last.current.sog.v = 0 /\ last.previous.sog.v = 0
    /\ last.current.time.v - last.previous.time.v = 121
    /\ haversine(last.previous.lat.v, last.previous.lon.v,
                 last.current.lat.v, last.current.lon.v) = 6050
    /\ last.eval.status = "done"
    /\ ~Has(last.eval.anomalies, "drifting")

-----------------------------------------------------------------------------
(* Ingestion of well-formed, invalid and malformed messages *)

Fields == {"time", "sog", "cog", "navStat", "lat", "lon"}

\* A complete report with its own timestamp.
Report(time, cog, lat, lon) ==
    [time |-> Num(time), sog |-> Num(10), cog |-> Num(cog), navStat |-> Num(0),
     lat |-> Num(lat), lon |-> Num(lon)]

WellFormed == {Report(100, 10, Lat0, Lon0), Report(200, 60, Lat0, Lon0),
               Report(300, 10, Lat0, Lon0)}

\* lat = 95, lat just below -90, lon = 181.
InvalidPositions == {Report(200, 60, 95 * Deg, Lon0), Report(200, 60, -90 * Deg - 1, Lon0),
                     Report(200, 60, Lat0, 181 * Deg)}

\* The report (200, 60) with a non-numeric string in one field.
StringIn(field) == [Report(200, 60, Lat0, Lon0) EXCEPT ![field] = Str]

BadJson(mmsi) == [topic |-> Topic(mmsi), kind |-> "invalid_json", payload |-> EmptyDict]
NotObject(mmsi) == [topic |-> Topic(mmsi), kind |-> "not_object", payload |-> EmptyDict]
ShortTopic == [topic |-> <<"vessels-v2", "location">>, kind |-> "object",
               payload |-> Report(200, 60, Lat0, Lon0)]

\* A report of a vessel that is not under way using engine (navStat 1).
Anchored == [Report(250, 60, Lat0, Lon0) EXCEPT !.navStat = Num(1)]

IngestMessages ==
    {Obj("v1", r) : r \in WellFormed \cup InvalidPositions \cup {Anchored}}
    \cup {Obj("v1", StringIn(f)) : f \in Fields}
    \cup {BadJson("v1"), NotObject("v1"), ShortTopic}
    \cup {Obj("v2", Report(200, 60, Lat0, Lon0)), Obj("v2", Report(200, 60, 95 * Deg, Lon0)),
          Obj("v2", StringIn("lat"))}

MaxIngestMsgs == 3

InitIngest ==
    /\ vessel_location_history = EmptyDict
    /\ last_alert_times = EmptyDict
    /\ clock \in {0, 600}
    /\ alerts = <<>>
    /\ suppressed = <<>>
    /\ accepted = EmptyDict
    /\ last = [msg |-> NoMsg, outcome |-> "init", appended |-> FALSE, evaluated |-> FALSE,
               current |-> NoReport, previous |-> NoReport, eval |-> NoEval]
    /\ nmsgs = 0
    /\ call = NoCall
    /\ threads = NoThreads

NextIngest == \E msg \in IngestMessages : nmsgs < MaxIngestMsgs /\ on_message(msg)

SpecIngest == InitIngest /\ [][NextIngest]_vars

\* The message is a JSON object whose lat or lon is a number out of range.
InvalidPosition(msg) ==
    /\ msg.kind = "object" /\ Len(msg.topic) >= 3
    /\ \/ IsNum(msg.payload.lat)
          /\ (msg.payload.lat.v < -90 * Deg \/ msg.payload.lat.v > 90 * Deg)
       \/ IsNum(msg.payload.lon)
          /\ (msg.payload.lon.v < -180 * Deg \/ msg.payload.lon.v > 180 * Deg)

\* The message is not JSON, not a JSON object, or has a non-numeric field.
Malformed(msg) ==
    \/ msg.kind \in {"invalid_json", "not_object"}
    \/ msg.kind = "object" /\ \E f \in DOMAIN msg.payload : ~IsNum(msg.payload[f])

\* C5  Invalid position: a report with lat or lon out of range enters no
\* history, triggers no evaluation and no alert, and leaves the history map
\* (the set of vessels that have an entry included) and the cooldown map as
\* they were.
C5_InvalidPosition ==
    [][(Handles /\ InvalidPosition(last'.msg)) =>
        /\ ~last'.appended /\ ~last'.evaluated
        /\ alerts' = alerts /\ suppressed' = suppressed
        /\ last_alert_times' = last_alert_times
        /\ DOMAIN vessel_location_history' = DOMAIN vessel_location_history
        /\ vessel_location_history' = vessel_location_history
      ]_vars

\* C6  Malformed input is rejected on its own: a malformed message is not
\* appended to any history and changes neither the reports held for any
\* vessel nor the cooldown map nor the logs of alerts, so the next report is
\* handled as if it had not arrived.
C6_MalformedRejected ==
    [][(Handles /\ Malformed(last'.msg)) =>
        /\ ~last'.appended
        /\ \A v \in Vessels :
               Reports(vessel_location_history', v) = Reports(vessel_location_history, v)
        /\ last_alert_times' = last_alert_times
        /\ alerts' = alerts /\ suppressed' = suppressed
      ]_vars

\* C8  Missing previous report: check_for_anomalies is called for an
\* appended report exactly when the history then holds at least two
\* reports; the first report appended for a vessel is stored, not evaluated,
\* and no alert or suppression exists for that vessel.
C8_MissingPrevious ==
    last.appended =>
      LET m == LastVessel
      IN  /\ last.evaluated <=> Len(vessel_location_history[m]) >= 2
          /\ Len(accepted[m]) = 1 =>
               /\ ~last.evaluated /\ last.outcome = "stored"
               /\ vessel_location_history[m] = <<last.current>>
               /\ \A i \in 1..Len(alerts) : alerts[i].data.vessel_id # m
               /\ \A i \in 1..Len(suppressed) : suppressed[i].mmsi # m

\* The second report of a vessel was evaluated and raised an alert, its
\* first one having been stored only.
C8_Witness ==
    /\ last.appended /\ last.evaluated /\ last.outcome = "alert"
    /\ Len(accepted[LastVessel]) = 2
    /\ Len(alerts) = 1

-----------------------------------------------------------------------------
(* The history window: one vessel receives more reports than the deque holds *)

WindowMessages ==
    {Obj("v1", r) : r \in WellFormed} \cup {Obj("v2", Report(200, 60, Lat0, Lon0))}

MaxWindowMsgs == 7

InitWindow ==
    /\ vessel_location_history = EmptyDict
    /\ last_alert_times = EmptyDict
    /\ clock = 600
    /\ alerts = <<>>
    /\ suppressed = <<>>
    /\ accepted = EmptyDict
    /\ last = [msg |-> NoMsg, outcome |-> "init", appended |-> FALSE, evaluated |-> FALSE,
               current |-> NoReport, previous |-> NoReport, eval |-> NoEval]
    /\ nmsgs = 0
    /\ call = NoCall
    /\ threads = NoThreads

NextWindow == \E msg \in WindowMessages : nmsgs < MaxWindowMsgs /\ on_message(msg)

SpecWindow == InitWindow /\ [][NextWindow]_vars

\* The last n elements of a sequence.
LastN(seq, n) == SubSeq(seq, Len(seq) - n + 1, Len(seq))

\* C4  History window: after n appended reports a vessel's history is the
\* min(n, 5) most recent of them in arrival order, never longer than 5, and
\* the report passed to check_for_anomalies as previous is the second most
\* recent one.
C4_HistoryWindow ==
    /\ DOMAIN accepted \subseteq DOMAIN vessel_location_history
    /\ \A m \in DOMAIN vessel_location_history :
          LET n == Len(Reports(accepted, m))
              k == IF n <= 5 THEN n ELSE 5
          IN  /\ Len(vessel_location_history[m]) <= 5
              /\ vessel_location_history[m] = LastN(Reports(accepted, m), k)
    /\ last.evaluated =>
          LET all == accepted[LastVessel]
          IN  /\ last.current = all[Len(all)]
              /\ last.previous = all[Len(all) - 1]

\* Seven reports were appended for a vessel, the seventh was evaluated, and
\* its history holds the third to the seventh.
C4_Witness ==
    /\ last.evaluated
    /\ Len(accepted[LastVessel]) = 7
    /\ Len(vessel_location_history[LastVessel]) = 5
    /\ vessel_location_history[LastVessel][1] = accepted[LastVessel][3]
    /\ accepted[LastVessel][1] # accepted[LastVessel][3]

-----------------------------------------------------------------------------
(* The pure functions on their own: a call is drawn, then it returns *)

Kinds == {"speed_drop", "course_change", "drifting"}

\* Every list of distinct kinds, in every order.
ScoreInputs ==
    {s \in UNION {[1..n -> Kinds] : n \in 0..3} :
        \A i, j \in DOMAIN s : i # j => s[i] # s[j]}

\* Courses in whole degrees: every 15th, and the ones next to 0, 180 and 360.
Courses == {c \in 0..359 : c % 15 = 0} \cup {1, 10, 179, 181, 350, 359}

Calling(fn, args) == [fn |-> fn, args |-> args, ret |-> <<>>]

PureCalls ==
    {Calling("calculate_danger_level", <<a>>) : a \in ScoreInputs}
    \cup {Calling("normalize_course_diff", <<c1, c2>>) : c1 \in Courses, c2 \in Courses}

InitPure ==
    /\ vessel_location_history = EmptyDict
    /\ last_alert_times = EmptyDict
    /\ clock = 0
    /\ alerts = <<>>
    /\ suppressed = <<>>
    /\ accepted = EmptyDict
    /\ last = [msg |-> NoMsg, outcome |-> "init", appended |-> FALSE, evaluated |-> FALSE,
               current |-> NoReport, previous |-> NoReport, eval |-> NoEval]
    /\ nmsgs = 0
    /\ call \in PureCalls
    /\ threads = NoThreads

\* calculate_danger_level(anomalies) returns; it assigns no global.
return_calculate_danger_level ==
    /\ call.fn = "calculate_danger_level" /\ call.ret = <<>>
    /\ call' = [call EXCEPT !.ret = <<calculate_danger_level(call.args[1])>>]
    /\ UNCHANGED <<vessel_location_history, last_alert_times, clock, alerts, suppressed,
                   accepted, last, nmsgs, threads>>

\* normalize_course_diff(cog1, cog2) returns.
return_normalize_course_diff ==
    /\ call.fn = "normalize_course_diff" /\ call.ret = <<>>
    /\ call' = [call EXCEPT !.ret = <<normalize_course_diff(call.args[1], call.args[2])>>]
    /\ UNCHANGED <<vessel_location_history, last_alert_times, clock, alerts, suppressed,
                   accepted, last, nmsgs, threads>>

NextPure == return_calculate_danger_level \/ return_normalize_course_diff

SpecPure == InitPure /\ [][NextPure]_vars

Elems(seq) == {seq[i] : i \in 1..Len(seq)}
Weight(S, kind, w) == IF kind \in S THEN w ELSE 0
Returned(fn) == call.fn = fn /\ call.ret # <<>>

\* C12  Danger scoring: for every set of kinds, calculate_danger_level
\* returns the level of total = 1 (speed_drop) + 2 (course_change) +
\* 3 (drifting) over the kinds present: total >= 4 gives (4, Critical),
\* 3 gives (3, High), 2 gives (2, Medium), otherwise (1, Low); the value
\* depends on the set only, not on the order, and the call changes no state.
C12_DangerScoring ==
    [][(call.fn = "calculate_danger_level" /\ call' # call) =>
         LET S == Elems(call.args[1])
             total == Weight(S, "speed_drop", 1) + Weight(S, "course_change", 2)
                      + Weight(S, "drifting", 3)
             level == IF total >= 4 THEN <<4, "Critical">>
                      ELSE IF total = 3 THEN <<3, "High">>
                      ELSE IF total = 2 THEN <<2, "Medium">>
                      ELSE <<1, "Low">>
         IN  /\ call'.ret = <<level>>
             /\ call'.args = call.args
             /\ UNCHANGED <<vessel_location_history, last_alert_times, clock, alerts,
                            suppressed, accepted>>]_vars

\* drifting reported before course_change: total 5, Critical.
C12_Witness ==
    /\ Returned("calculate_danger_level")
    /\ call.args = << <<"drifting", "course_change">> >>
    /\ call.ret = << <<4, "Critical">> >>

Min2(a, b) == IF a <= b THEN a ELSE b

\* C13  Circular course difference: for whole courses c1, c2 in [0, 360),
\* normalize_course_diff(c1, c2) = normalize_course_diff(c2, c1), it lies in
\* [0, 180] and is min(|c1 - c2|, 360 - |c1 - c2|); 350 against 10 is 20 and
\* 0 against 180 is 180.
C13_CourseDiff ==
    Returned("normalize_course_diff") =>
      LET c1 == call.args[1]
          c2 == call.args[2]
          d == call.ret[1]
      IN  /\ d = normalize_course_diff(c2, c1)
          /\ d \in 0..180
          /\ d = Min2(Abs(c1 - c2), 360 - Abs(c1 - c2))
          /\ (c1 = 350 /\ c2 = 10) => d = 20
          /\ (c1 = 10 /\ c2 = 350) => d = 20
          /\ (c1 = 0 /\ c2 = 180) => d = 180

\* 350 against 10: 20 degrees, across north.
C13_Witness ==
    /\ Returned("normalize_course_diff")
    /\ call.args = <<350, 10>>
    /\ call.ret = <<20>>

-----------------------------------------------------------------------------
(* Combinations of anomalies in one event, checked under SpecDetect *)

\* The reports under way that are later than the stored one.
LaterMessages ==
    {msg \in DetectMessages :
        msg.payload.navStat = Num(0) /\ msg.payload.time = Num(2000)}

\* The (current, previous) pairs check_for_anomalies is called with for them.
DetectPairs ==
    {<<RoundPosition(CurrentData(msg.payload, 600)), previous>> :
        msg \in LaterMessages, previous \in DetectPrevious}

\* The sets of kinds check_for_anomalies finds for them.
ReachableAnomalySets ==
    {Elems(evaluate_rules(pair[1], pair[2]).anomalies) : pair \in DetectPairs}

Total(S) ==
    Weight(S, "speed_drop", 1) + Weight(S, "course_change", 2) + Weight(S, "drifting", 3)

\* C14 as stated: any combination of kinds can be triggered by one pair, and
\* the largest total over the reachable sets is 6, all three kinds in one
\* event.
C14_AnyCombination ==
    last.evaluated =>
        /\ ReachableAnomalySets = SUBSET Kinds
        /\ \E S \in ReachableAnomalySets : Total(S) = 6

\* C14  Each rule is evaluated whatever the other rules found and no kind is
\* listed twice, but speed_drop (previous.sog > 0) and drifting
\* (previous.sog = 0) never occur in one event: the reachable sets are the
\* six without that pair, the largest total is 5 (course_change and
\* drifting), and it maps to level 4.
C14_Combinations ==
    last.evaluated =>
      LET anomalies == last.eval.anomalies
          S == Elems(anomalies)
      IN  /\ Cardinality(S) = Len(anomalies)
          /\ ~({"speed_drop", "drifting"} \subseteq S)
          /\ Total(S) <= 5
          /\ S \in ReachableAnomalySets
          /\ ReachableAnomalySets =
                {T \in SUBSET Kinds : ~({"speed_drop", "drifting"} \subseteq T)}
          /\ (Total(S) = 5 /\ alerts # <<>>) =>
                alerts[Len(alerts)].data.danger_score = 4

\* A stopped vessel displaced at 0.6 m/s whose course changed by 50 degrees:
\* course_change and drifting, total 5, alerted at level 4.
C14_Witness ==
    /\ last.evaluated
    /\ last.eval.anomalies = <<"course_change", "drifting">>
    /\ last.outcome = "alert"
    /\ alerts[Len(alerts)].data.danger_score = 4

-----------------------------------------------------------------------------
(* Concurrent delivery: a transport that runs on_message on one thread per   *)
(* message.  x1.py takes no lock, so a callback can be overtaken between its *)
(* append (line 201), its read of history[-2] with the cooldown test (lines  *)
(* 203, 95) and its emission (lines 96-101).                                 *)

Threads == {1, 2}

Idle == [pc |-> "idle", msg |-> NoMsg, current |-> NoReport, pos |-> 0,
         evaluated |-> FALSE, previous |-> NoReport, pending |-> <<>>]

ConcurrentMessages ==
    {Obj("v1", Report(200, 60, Lat0, Lon0)), Obj("v1", Report(300, 10, Lat0, Lon0)),
     Obj("v2", Report(200, 60, Lat0, Lon0)), Obj("v2", Report(300, 10, Lat0, Lon0))}

\* Vessel v1 has reported once, v2 never; no alert has been emitted.
InitConcurrent ==
    LET first == RoundPosition(CurrentData(Report(100, 10, Lat0, Lon0), 600))
    IN  /\ vessel_location_history = [v \in {"v1"} |-> <<first>>]
        /\ accepted = [v \in {"v1"} |-> <<first>>]
        /\ last_alert_times = EmptyDict
        /\ clock = 600
        /\ alerts = <<>>
        /\ suppressed = <<>>
        /\ last = [msg |-> NoMsg, outcome |-> "init", appended |-> FALSE,
                   evaluated |-> FALSE, current |-> NoReport, previous |-> NoReport,
                   eval |-> NoEval]
        /\ nmsgs = 0
        /\ call = NoCall
        /\ threads = [t \in Threads |-> Idle]

\* Thread t runs on_message(msg) up to history.append, x1.py:177-201.
t_append(t, msg) ==
    LET r == Handler(msg, vessel_location_history, last_alert_times, alerts,
                     suppressed, clock)
        mmsi == msg.topic[2]
    IN  /\ threads[t].pc = "idle"
        /\ vessel_location_history' = r.vessel_location_history
        /\ accepted' = IF r.appended
                       THEN DictSet(accepted, mmsi, Append(Reports(accepted, mmsi), r.current))
                       ELSE accepted
        /\ threads' = [threads EXCEPT ![t] =
                         [Idle EXCEPT !.pc = IF r.appended THEN "appended" ELSE "done",
                                      !.msg = msg,
                                      !.current = r.current,
                                      !.pos = Len(Reports(accepted, mmsi)) + 1]]
        /\ nmsgs' = nmsgs + 1
        /\ UNCHANGED <<last_alert_times, clock, alerts, suppressed, last, call>>

\* Thread t goes on: len(history) >= 2, history[-2], the rules, and send_alert
\* up to the cooldown test, x1.py:202-203, 135-166, 64-95 (and 103).
t_check(t) ==
    LET th == threads[t]
        mmsi == th.msg.topic[2]
        history == vessel_location_history[mmsi]
        previous == previous_report(history)
        c == check_for_anomalies(mmsi, th.current, previous, last_alert_times,
                                 alerts, suppressed, clock)
    IN  /\ th.pc = "appended"
        /\ IF ~enough_history(history)
           THEN /\ threads' = [threads EXCEPT ![t].pc = "done"]
                /\ UNCHANGED suppressed
           ELSE /\ threads' = [threads EXCEPT
                                 ![t].pc = IF c.outcome = "alert" THEN "emitting" ELSE "done",
                                 ![t].evaluated = TRUE,
                                 ![t].previous = previous,
                                 ![t].pending = IF c.outcome = "alert"
                                                THEN <<c.alerts[Len(c.alerts)]>> ELSE <<>>]
                /\ suppressed' = c.suppressed
        /\ UNCHANGED <<vessel_location_history, last_alert_times, clock, alerts,
                       accepted, last, nmsgs, call>>

\* Thread t emits the alert and records its time, x1.py:96-101.
t_emit(t) ==
    LET th == threads[t]
        alert == th.pending[1]
    IN  /\ th.pc = "emitting"
        /\ alerts' = Append(alerts, alert)
        /\ last_alert_times' = DictSet(last_alert_times, th.msg.topic[2], alert.at)
        /\ threads' = [threads EXCEPT ![t].pc = "done", ![t].pending = <<>>]
        /\ UNCHANGED <<vessel_location_history, clock, suppressed, accepted, last,
                       nmsgs, call>>

NextConcurrent ==
    \E t \in Threads :
        \/ \E msg \in ConcurrentMessages : t_append(t, msg)
        \/ t_check(t)
        \/ t_emit(t)

SpecConcurrent == InitConcurrent /\ [][NextConcurrent]_vars

\* C15  Concurrent delivery: the cooldown test and the update of the
\* last-alert time act as one step, so no two alerts of one vessel are less
\* than 600 seconds apart, and the report a callback reads as previous is
\* the one that arrived just before its own.
C15_MutualExclusion ==
    /\ \A i, j \in 1..Len(alerts) :
          (i < j /\ alerts[i].data.vessel_id = alerts[j].data.vessel_id)
             => alerts[j].at - alerts[i].at >= ALERT_COOLDOWN_MINUTES * 60
    /\ \A t \in Threads :
          threads[t].evaluated =>
             threads[t].previous = accepted[threads[t].msg.topic[2]][threads[t].pos - 1]

-----------------------------------------------------------------------------
(* The alert record, checked under SpecDetect *)

\* C16  Alert record: send_alert is called exactly when the rules ran and
\* the anomaly list is not empty, and the record it builds carries the
\* vessel of the report, the time of the current report, the stored
\* (validated, rounded) position of the current report, the list of
\* triggered kinds, and a score in 1..4 with the label of the table
\* 1 Low, 2 Medium, 3 High, 4 Critical.
C16_AlertRecord ==
    /\ last.outcome \in {"alert", "suppressed"} <=>
          (last.evaluated /\ last.eval.status = "done" /\ last.eval.anomalies # <<>>)
    /\ last.outcome = "alert" =>
          LET record == alerts[Len(alerts)].data
              payload == last.msg.payload
          IN  /\ record.vessel_id = last.msg.topic[2]
              /\ record.timestamp = payload.time
              /\ record.location.coordinates =
                    [lat |-> Num(Round6(payload.lat.v)), lon |-> Num(Round6(payload.lon.v))]
              /\ record.location.coordinates =
                    [lat |-> last.current.lat, lon |-> last.current.lon]
              /\ record.indicators = last.eval.anomalies
              /\ record.indicators # <<>>
              /\ Elems(record.indicators) \subseteq Kinds
              /\ record.danger_score \in 1..4
              /\ record.danger_level =
                    (CASE record.danger_score = 1 -> "Low"
                       [] record.danger_score = 2 -> "Medium"
                       [] record.danger_score = 3 -> "High"
                       [] record.danger_score = 4 -> "Critical")

\* A drifting vessel 600 m north of its previous report: a High alert at the
\* current position.
C16_Witness ==
    /\ last.outcome = "alert"
    /\ last.eval.anomalies = <<"drifting">>
    /\ alerts[Len(alerts)].data.danger_score = 3
    /\ alerts[Len(alerts)].data.location.coordinates.lat = Num(60 * Deg + 53960)
    /\ last.previous.lat = Num(60 * Deg)

-----------------------------------------------------------------------------
(* Isolation of vessels, checked under SpecIngest *)

\* The vessel a message is about: none when the topic is too short.
VesselOf(msg) == IF Len(msg.topic) < 3 THEN {} ELSE {msg.topic[2]}

\* The times of the alerts emitted for vessel mmsi, from the log.
AlertTimes(al, mmsi) ==
    {al[i].at : i \in {j \in 1..Len(al) : al[j].data.vessel_id = mmsi}}

\* C17  Per-vessel isolation: handling a message about vessel A, whatever
\* becomes of it, leaves the history and the last-alert time of every other
\* vessel B as they were (whether B has an entry included); and whether an
\* event of A is emitted or suppressed is decided by the clock and A's own
\* alerts only.
C17_Isolation ==
    [][Handles =>
        /\ \A B \in Vessels \ VesselOf(last'.msg) :
              /\ B \in DOMAIN vessel_location_history' <=> B \in DOMAIN vessel_location_history
              /\ Reports(vessel_location_history', B) = Reports(vessel_location_history, B)
              /\ B \in DOMAIN last_alert_times' <=> B \in DOMAIN last_alert_times
              /\ LastAlert(last_alert_times', B) = LastAlert(last_alert_times, B)
              /\ AlertTimes(alerts', B) = AlertTimes(alerts, B)
        /\ last'.outcome \in {"alert", "suppressed"} =>
              LET own == AlertTimes(alerts, last'.msg.topic[2])
              IN  last'.outcome = "alert" <=>
                     \A t \in own \cup {0} : clock - t >= ALERT_COOLDOWN_MINUTES * 60
      ]_vars

\* Vessel v1 has two reports and an alert on record when a report of v2 is
\* appended.
C17_Witness ==
    /\ last.appended /\ last.msg.topic[2] = "v2"
    /\ Len(Reports(vessel_location_history, "v1")) = 2
    /\ LastAlert(last_alert_times, "v1") = 600
    /\ "v2" \notin DOMAIN last_alert_times

-----------------------------------------------------------------------------
(* Reports out of order, checked under SpecIngest *)

\* The message handled in this step is a report of numbers, not later than
\* the most recent report its vessel has, or with a non-zero navStat.
OutOfOrder ==
    LET msg == last'.msg
        held == Reports(vessel_location_history, msg.topic[2])
    IN  /\ Handles /\ last'.appended
        /\ \A f \in Fields : IsNum(msg.payload[f])
        /\ held # <<>> /\ IsNum(held[Len(held)].time)
        /\ \/ msg.payload.time.v <= held[Len(held)].time.v
           \/ msg.payload.navStat.v # 0

\* C18  Out-of-order reports enter the history: a report not later than its
\* vessel's most recent one, or with a non-zero navStat, is appended at the
\* end of the history and yields no anomaly; the history is in arrival
\* order; and the previous report of an evaluation is the report appended
\* last before it, whatever its time and navStat.
C18_OutOfOrder ==
    [][/\ OutOfOrder =>
            LET m == last'.msg.topic[2]
            IN  /\ vessel_location_history'[m] =
                      Append(vessel_location_history[m], last'.current)
                /\ last'.evaluated /\ last'.outcome = "none"
                /\ last'.eval.status = "return" /\ last'.eval.anomalies = <<>>
                /\ alerts' = alerts /\ suppressed' = suppressed
       /\ Handles =>
            /\ \A m \in DOMAIN accepted' : vessel_location_history'[m] = accepted'[m]
            /\ last'.evaluated =>
                  LET before == accepted[last'.msg.topic[2]]
                  IN  last'.previous = before[Len(before)]
      ]_vars

\* The report of time 100 arrived after the one of time 200 and is the
\* previous report of the one of time 300.
C18_Witness ==
    /\ last.evaluated /\ last.msg.topic[2] = "v1"
    /\ Len(vessel_location_history["v1"]) = 3
    /\ vessel_location_history["v1"][1].time = Num(200)
    /\ vessel_location_history["v1"][2].time = Num(100)
    /\ last.current.time = Num(300)
    /\ last.previous.time = Num(100)

-----------------------------------------------------------------------------
(* The first alert of a vessel, checked under SpecIngest (clock 0 or 600) *)

\* C19  First alert: for a vessel without a last-alert entry the cooldown
\* test reads 0, so its qualifying event is emitted exactly when the clock
\* reads 600 or more and is suppressed otherwise; an entry is created by an
\* emission for that vessel only, is never removed, and changes only at an
\* emission for that vessel, to the clock reading.
C19_FirstAlert ==
    [][/\ (Handles /\ Qualifying' /\ last'.msg.topic[2] \notin DOMAIN last_alert_times) =>
            /\ last'.outcome = "alert" <=> clock >= 600
            /\ last'.outcome = "suppressed" <=> clock < 600
            /\ last'.outcome = "alert" => Emits(last'.msg.topic[2])
            /\ last'.outcome = "suppressed" =>
                  /\ alerts' = alerts
                  /\ last'.msg.topic[2] \notin DOMAIN last_alert_times'
       /\ DOMAIN last_alert_times \subseteq DOMAIN last_alert_times'
       /\ \A v \in DOMAIN last_alert_times' :
             (v \notin DOMAIN last_alert_times \/ last_alert_times'[v] # last_alert_times[v])
                => /\ Handles /\ Qualifying'
                   /\ last'.msg.topic[2] = v /\ last'.outcome = "alert"
                   /\ Emits(v)
                   /\ last_alert_times'[v] = clock
      ]_vars

\* The first event of v1 comes at clock 0: it is suppressed and no entry is
\* made.
C19_Witness ==
    /\ clock = 0
    /\ Qualifying /\ last.msg.topic[2] = "v1" /\ last.outcome = "suppressed"
    /\ Len(suppressed) = 1 /\ suppressed[1].mmsi = "v1" /\ suppressed[1].at = 0
    /\ alerts = <<>>
    /\ last_alert_times = EmptyDict

====
